---- MODULE Spec2Model ----
(***************************************************************************)
(* Page controller of the Excel -> ERPNext uploader (static/script.js).    *)
(*                                                                         *)
(* The page is a single-threaded event loop: every user activation and     *)
(* every fetch continuation or timer callback runs to completion, so each  *)
(* is one atomic action here.  Requests in flight and armed timers are     *)
(* kept in bags; the server's answer is chosen when it is delivered.       *)
(***************************************************************************)
EXTENDS Integers, Sequences, FiniteSets, Bags, TLC

(***************************************************************************)
(* Bounds of the model.                                                    *)
(***************************************************************************)
MaxClicks == 3
LateClicks == 2
MaxRows == 2
MaxResults == 2
MaxCorrections == 1
MaxLogged == 2
MaxText == 4

(***************************************************************************)
(* Program constants.                                                      *)
(***************************************************************************)
PreviewCap == 5

(***************************************************************************)
(* JavaScript values.  null and undefined are kept apart; both are falsy.  *)
(***************************************************************************)
Null == "null"
Undefined == "undefined"

Truthy(v) == v \notin {Null, Undefined, ""}

Min(a, b) == IF a <= b THEN a ELSE b

NumStr(n) ==
  CASE n = 0 -> "0" [] n = 1 -> "1" [] n = 2 -> "2" [] n = 3 -> "3"
    [] n = 4 -> "4" [] n = 5 -> "5" [] OTHER -> "many"

RECURSIVE SeqsUpTo(_, _)
SeqsUpTo(S, n) ==
  IF n = 0 THEN {<<>>}
  ELSE LET shorter == SeqsUpTo(S, n - 1)
       IN shorter \cup {Append(s, x) : s \in shorter, x \in S}

(***************************************************************************)
(* Input domains: what the operator types and what the backend answers.    *)
(***************************************************************************)
RowIds == {"r1"}
DataSets == SeqsUpTo(RowIds, MaxRows)
ErrorTexts == {"Duplicate"}
Sessions == {"s1", "s2"}
Invoices == {"inv1"}

(***************************************************************************)
(* Text.  A piece of text is a tuple of fragments: literal pieces of the   *)
(* template and the values substituted into it.                            *)
(***************************************************************************)
Mentions(text, fragment) == \E i \in 1..Len(text) : text[i] = fragment

(* JSON.stringify of a string value or of undefined (the latter returns    *)
(* undefined, which a template literal prints as "undefined").             *)
JSONstringifyString(v) ==
  IF v = Undefined THEN <<Undefined>> ELSE <<"\"", v, "\"">>

(* A nested `response` object is absent, <<>>, or {data: {name: n}},       *)
(* written <<n>>.                                                          *)
NoResponse == <<>>
JSONstringifyResponse(r) ==
  IF r = NoResponse THEN <<Undefined>>
  ELSE <<"{\"data\":{\"name\":\"", r[1], "\"}}">>

(* JSON.stringify(invoices, null, 2) written to textContent: the payload   *)
(* is opaque; undefined serialises to undefined, which textContent         *)
(* stores as the empty text.                                               *)
JSONstringifyInvoices(v) ==
  IF v = Undefined THEN <<>> ELSE <<"json(", v, ")">>

(***************************************************************************)
(* Activity log: addActivityLog.  The timestamp is left out of the entry.  *)
(***************************************************************************)
icons(type) ==
  CASE type = "info" -> "U+2139"
    [] type = "success" -> "U+2705"
    [] type = "error" -> "U+274C"
    [] type = "warning" -> "U+26A0"
    [] type = "validation" -> "U+1F50D"
    [] OTHER -> Undefined

colors(type) ==
  CASE type = "info" -> "#8ab4f8"
    [] type = "success" -> "#4caf50"
    [] type = "error" -> "#ff6b6b"
    [] type = "warning" -> "#ffb74d"
    [] type = "validation" -> "#9c27b0"
    [] OTHER -> Undefined

LogEntry(message, type) ==
  [color |-> IF Truthy(colors(type)) THEN colors(type) ELSE colors("info"),
   icon |-> IF Truthy(icons(type)) THEN icons(type) ELSE "",
   message |-> message]

(* addActivityLog replacing the content of the log by the new entry. *)
addActivityLogReplacing(log, message, type) == <<LogEntry(message, type)>>

addActivityLog(log, message, type) == Append(log, LogEntry(message, type))

(***************************************************************************)
(* Requests.  A request in flight is the url it was sent to, the part of   *)
(* its body the claims speak of (session_id, corrections), and the        *)
(* variable its continuation closes over (skipValidation).                 *)
(***************************************************************************)
Request(url, skip, session, corrections) ==
  [url |-> url, skipValidation |-> skip, session_id |-> session,
   corrections |-> corrections]

UploadRequest == Request(<<"/upload">>, FALSE, Undefined, <<>>)
StartValidationRequest == Request(<<"/start_validation">>, FALSE, Undefined, <<>>)
ReportRequest(session) ==
  Request(<<"/validation_report/", session>>, FALSE, Undefined, <<>>)
ApplyRequest(session, corrections) ==
  Request(<<"/apply_corrections">>, FALSE, session, corrections)
(* cycle is history: how many Upload activations preceded the request. *)
GenerateRequest(skip, cycle) ==
  [url |-> <<"/generate_json">>, skipValidation |-> skip, session_id |-> Undefined,
   corrections |-> <<>>, uploadCycle |-> cycle]
PostRequest == Request(<<"/post_invoice">>, FALSE, Undefined, <<>>)

Issue(bag, req) == bag (+) SetToBag({req})
Settle(bag, req) == bag (-) SetToBag({req})

(***************************************************************************)
(* Suggested corrections: the label displayValidationResults renders for   *)
(* one auto_correction, as label.textContent reads it back, one character  *)
(* per element.  Names are drawn from texts without & < >, for which the   *)
(* markup parser returns the template text unchanged.                      *)
(***************************************************************************)
NL == "\n"
Quote == "\""
Arrow == "U+2192"
CustomerGlyph == "U+1F465"
ItemGlyph == "U+1F4E6"

NameACME == <<"A", "C", "M", "E">>
NameAcme == <<"A", "c", "m", "e">>
NameInch == <<"i", "t", "e", "m", " ", "2", Quote, "n", "u", "t">>

AutoCorrections ==
  {[type |-> "customer", original |-> NameACME, suggested |-> NameAcme],
   [type |-> "item", original |-> NameACME, suggested |-> NameAcme],
   [type |-> "customer", original |-> NameInch, suggested |-> NameAcme]}

Indent(n) == [i \in 1..n |-> " "]

RenderLabel(correction) ==
  <<NL>> \o Indent(12)
    \o <<IF correction.type = "customer" THEN CustomerGlyph ELSE ItemGlyph, " ">>
    \o <<NL>> \o Indent(12)
    \o <<Quote>> \o correction.original \o <<Quote, " ", Arrow, " ", Quote>>
    \o correction.suggested \o <<Quote>>
    \o <<NL>> \o Indent(10)

(***************************************************************************)
(* label.match(/(customer|item).*?"(.+?)" -> "(.+?)"/): the leftmost       *)
(* match, lazy quantifiers taking the shortest run that lets the rest of   *)
(* the pattern match; `.` matches anything but a line terminator.          *)
(***************************************************************************)
WordCustomer == <<"c", "u", "s", "t", "o", "m", "e", "r">>
WordItem == <<"i", "t", "e", "m">>
Separator == <<Quote, " ", Arrow, " ", Quote>>

WordAt(text, i, word) ==
  /\ i >= 1
  /\ i + Len(word) - 1 <= Len(text)
  /\ \A k \in 1..Len(word) : text[i + k - 1] = word[k]

AllDots(text, from, to) == \A k \in from..to : text[k] \notin {NL, "\r"}

SetMin(S) == CHOOSE x \in S : \A y \in S : x <= y

(* Ends of the third group when it starts at p. *)
Group3Ends(text, p) ==
  {e \in p..(Len(text) - 1) : AllDots(text, p, e) /\ text[e + 1] = Quote}

(* Ends of the second group when its opening quote is at j. *)
Group2Ends(text, j) ==
  {e \in (j + 1)..Len(text) :
     /\ AllDots(text, j + 1, e)
     /\ WordAt(text, e + 1, Separator)
     /\ Group3Ends(text, e + 1 + Len(Separator)) # {}}

(* Places of the opening quote when the first group ends before a. *)
OpeningQuotes(text, a) ==
  {j \in a..Len(text) :
     /\ text[j] = Quote
     /\ AllDots(text, a, j - 1)
     /\ Group2Ends(text, j) # {}}

FirstGroupAt(text, i) ==
  IF WordAt(text, i, WordCustomer) /\ OpeningQuotes(text, i + Len(WordCustomer)) # {}
    THEN <<"customer", WordCustomer>>
  ELSE IF WordAt(text, i, WordItem) /\ OpeningQuotes(text, i + Len(WordItem)) # {}
    THEN <<"item", WordItem>>
  ELSE <<>>

(* The match array [whole, group 1, group 2, group 3] without its first    *)
(* element, or <<>> for null.                                              *)
LabelMatch(text) ==
  LET starts == {i \in 1..Len(text) : FirstGroupAt(text, i) # <<>>}
  IN IF starts = {} THEN <<>>
     ELSE LET i == SetMin(starts)
              g1 == FirstGroupAt(text, i)
              j == SetMin(OpeningQuotes(text, i + Len(g1[2])))
              e2 == SetMin(Group2Ends(text, j))
              p == e2 + 1 + Len(Separator)
              e3 == SetMin(Group3Ends(text, p))
          IN <<g1[1], SubSeq(text, j + 1, e2), SubSeq(text, p, e3)>>

(* The body of the forEach over the checked boxes, for one label. *)
ParseLabel(text) ==
  LET match == LabelMatch(text)
  IN IF match # <<>>
       THEN <<[type |-> IF match[1] = CustomerGlyph THEN "customer" ELSE "item",
               original |-> match[2],
               suggested |-> match[3]]>>
       ELSE <<>>

RECURSIVE CollectCorrections(_)
CollectCorrections(labels) ==
  IF labels = <<>> THEN <<>>
  ELSE ParseLabel(Head(labels)) \o CollectCorrections(Tail(labels))

(* The labels of the checked boxes, in document order. *)
RECURSIVE CheckedLabels(_, _, _)
CheckedLabels(labels, checked, i) ==
  IF i > Len(labels) THEN <<>>
  ELSE (IF i \in checked THEN <<labels[i]>> ELSE <<>>)
         \o CheckedLabels(labels, checked, i + 1)

RECURSIVE RenderLabels(_)
RenderLabels(corrections) ==
  IF corrections = <<>> THEN <<>>
  ELSE <<RenderLabel(Head(corrections))>> \o RenderLabels(Tail(corrections))

(***************************************************************************)
(* Text inputs: value.trim() of an input field, one character per element. *)
(***************************************************************************)
RECURSIVE TrimStart(_)
TrimStart(text) ==
  IF text # <<>> /\ Head(text) = " " THEN TrimStart(Tail(text)) ELSE text

RECURSIVE TrimEnd(_)
TrimEnd(text) ==
  IF text # <<>> /\ text[Len(text)] = " "
    THEN TrimEnd(SubSeq(text, 1, Len(text) - 1))
    ELSE text

trim(text) == TrimEnd(TrimStart(text))

FieldValues == {<<>>, <<" ">>, <<" ", "t", " ">>}

(***************************************************************************)
(* State of the page.                                                      *)
(***************************************************************************)
VARIABLES
  uploadedRows,              \* let uploadedRows
  currentValidationSession,  \* let currentValidationSession
  generatedInvoices,         \* window.generatedInvoices
  activityLog,               \* children of #activityLog, oldest first
  previewTable,              \* content of #previewTable
  jsonOutput,                \* jsonOutput.textContent
  generateBtnDisabled,       \* generateBtn.disabled
  postBtnDisabled,           \* postBtn.disabled
  downloadJsonBtnDisabled,   \* downloadJsonBtn.disabled
  validateBtnDisabled,       \* validateBtn.disabled
  lastCreatedBox,            \* lastCreatedBox.style.display = "block"
  lastInvoiceList,           \* the <li> texts of #lastInvoiceList
  validationPanel,           \* validationPanel.style.display = "block"
  validationProgress,        \* progress bar width and text
  validationResults,         \* what displayValidationResults rendered
  pending,                   \* bag of requests in flight
  timers,                    \* bag of armed setTimeout callbacks
  last,                      \* history: the handler that ran last, its input
  clicks,                    \* history: activations by the operator so far
  uploadCycle                \* history: Upload activations so far

buttons ==
  <<generateBtnDisabled, postBtnDisabled, downloadJsonBtnDisabled, validateBtnDisabled>>
lastCreated == <<lastCreatedBox, lastInvoiceList>>
validationUI == <<validationPanel, validationProgress, validationResults>>
pageState == <<uploadedRows, currentValidationSession, generatedInvoices>>

vars ==
  <<uploadedRows, currentValidationSession, generatedInvoices, activityLog,
    previewTable, jsonOutput, generateBtnDisabled, postBtnDisabled,
    downloadJsonBtnDisabled, validateBtnDisabled, lastCreatedBox, lastInvoiceList,
    validationPanel, validationProgress, validationResults, pending, timers, last,
    clicks, uploadCycle>>

NoPreview == [tag |-> "", rows |-> <<>>]
NoDataPreview == [tag |-> "p:No data found in file.", rows |-> <<>>]
TablePreview(rows) ==
  [tag |-> "table", rows |-> SubSeq(rows, 1, Min(Len(rows), PreviewCap))]

NoProgress == [percentage |-> 0, text |-> ""]
NoResults ==
  [rendered |-> FALSE, generateDisabled |-> TRUE, retryDisabled |-> TRUE,
   skipDisabled |-> TRUE, labels |-> <<>>]

Event(op, request, data) == [op |-> op, request |-> request, data |-> data]
NoRequest == Request(<<>>, FALSE, Undefined, <<>>)
NoData == <<>>

(* One more activation by the operator, while the budget lasts. *)
Activated ==
  /\ clicks < MaxClicks
  /\ clicks' = clicks + 1
  /\ UNCHANGED uploadCycle

(* One more activation of Upload. *)
ActivatedUpload ==
  /\ clicks < MaxClicks
  /\ clicks' = clicks + 1
  /\ uploadCycle' = uploadCycle + 1

(* The page as loaded: the script's initialisers.  The script sets no      *)
(* button at load: each starts as the page's markup has it, with or        *)
(* without the disabled attribute.  The panels start hidden.               *)
Init ==
  /\ uploadedRows = <<>>
  /\ currentValidationSession = Null
  /\ generatedInvoices = Undefined
  /\ activityLog = <<>>
  /\ previewTable = NoPreview
  /\ jsonOutput = <<>>
  /\ generateBtnDisabled \in BOOLEAN
  /\ postBtnDisabled \in BOOLEAN
  /\ downloadJsonBtnDisabled \in BOOLEAN
  /\ validateBtnDisabled \in BOOLEAN
  /\ lastCreatedBox = FALSE
  /\ lastInvoiceList = <<>>
  /\ validationPanel = FALSE
  /\ validationProgress = NoProgress
  /\ validationResults = NoResults
  /\ pending = EmptyBag
  /\ timers = EmptyBag
  /\ last = Event("load", NoRequest, NoData)
  /\ clicks = 0
  /\ uploadCycle = 0

(***************************************************************************)
(* Last-created display, validation panel.                                 *)
(***************************************************************************)
showLastInvoices(list) ==
  /\ lastInvoiceList' = list
  /\ lastCreatedBox' = TRUE

hideLastInvoices ==
  /\ lastInvoiceList' = <<>>
  /\ lastCreatedBox' = FALSE

showValidationPanel == validationPanel' = TRUE

hideValidationPanel == validationPanel' = FALSE

updateValidationProgress(percentage, message) ==
  validationProgress' = [percentage |-> percentage, text |-> message]

(***************************************************************************)
(* Upload.                                                                 *)
(***************************************************************************)
UploadResponses ==
  {[error |-> e, rows |-> <<>>, columns |-> FALSE] : e \in ErrorTexts}
    \cup {[error |-> Undefined, rows |-> r, columns |-> c] :
            r \in {<<>>} \cup {<<d>> : d \in DataSets}, c \in BOOLEAN}

(* UploadClick without the call of hideLastInvoices. *)
UploadClickKeepsLastCreated(hasFile) ==
  /\ generateBtnDisabled' = TRUE
  /\ postBtnDisabled' = TRUE
  /\ jsonOutput' = <<>>
  /\ downloadJsonBtnDisabled' = TRUE
  /\ hideValidationPanel
  /\ IF ~hasFile
       THEN /\ activityLog' = addActivityLog(<<>>, <<"Please select a file first.">>, "error")
            /\ pending' = pending
       ELSE /\ activityLog' = addActivityLog(<<>>, <<"Uploading and processing...">>, "info")
            /\ pending' = Issue(pending, UploadRequest)
  /\ last' = Event("UploadClick", NoRequest, <<hasFile>>)
  /\ ActivatedUpload
  /\ UNCHANGED <<pageState, previewTable, validateBtnDisabled, lastCreated,
                 validationProgress, validationResults, timers>>

UploadClick(hasFile) ==
  /\ generateBtnDisabled' = TRUE
  /\ postBtnDisabled' = TRUE
  /\ jsonOutput' = <<>>
  /\ downloadJsonBtnDisabled' = TRUE
  /\ hideLastInvoices
  /\ hideValidationPanel
  /\ IF ~hasFile
       THEN /\ activityLog' = addActivityLog(<<>>, <<"Please select a file first.">>, "error")
            /\ pending' = pending
       ELSE /\ activityLog' = addActivityLog(<<>>, <<"Uploading and processing...">>, "info")
            /\ pending' = Issue(pending, UploadRequest)
  /\ last' = Event("UploadClick", NoRequest, <<hasFile>>)
  /\ ActivatedUpload
  /\ UNCHANGED <<pageState, previewTable, validateBtnDisabled, validationProgress,
                 validationResults, timers>>

(* .then(data => ...) of the upload; a response with rows but no columns   *)
(* throws at data.columns.forEach and lands in the .catch.                 *)
(* UploadResponse keeping rows an earlier response has set. *)
UploadResponseKeepsEarlier(data) ==
  /\ BagIn(UploadRequest, pending)
  /\ pending' = Settle(pending, UploadRequest)
  /\ last' = Event("UploadResponse", UploadRequest, data)
  /\ UNCHANGED <<clicks, uploadCycle>>
  /\ IF Truthy(data.error)
       THEN /\ activityLog' = addActivityLog(activityLog, <<data.error>>, "error")
            /\ UNCHANGED <<uploadedRows, previewTable, generateBtnDisabled,
                           validateBtnDisabled>>
       ELSE LET rows == IF data.rows = <<>> THEN <<>> ELSE data.rows[1]
                logged ==
                  addActivityLog(activityLog,
                    <<"File uploaded successfully. Showing first ",
                      NumStr(Min(Len(rows), PreviewCap)), " rows.">>, "success")
            IN /\ uploadedRows' = IF uploadedRows = <<>> THEN rows ELSE uploadedRows
               /\ IF Len(rows) = 0
                    THEN /\ activityLog' = logged
                         /\ previewTable' = NoDataPreview
                         /\ UNCHANGED <<generateBtnDisabled, validateBtnDisabled>>
                  ELSE IF ~data.columns
                    THEN /\ activityLog' =
                              addActivityLog(logged, <<"Upload failed: ", "TypeError">>, "error")
                         /\ UNCHANGED <<previewTable, generateBtnDisabled,
                                        validateBtnDisabled>>
                  ELSE /\ activityLog' = logged
                       /\ previewTable' = TablePreview(rows)
                       /\ validateBtnDisabled' = FALSE
                       /\ generateBtnDisabled' = FALSE
  /\ UNCHANGED <<currentValidationSession, generatedInvoices, jsonOutput,
                 postBtnDisabled, downloadJsonBtnDisabled, lastCreated,
                 validationUI, timers>>

UploadResponse(data) ==
  /\ BagIn(UploadRequest, pending)
  /\ pending' = Settle(pending, UploadRequest)
  /\ last' = Event("UploadResponse", UploadRequest, data)
  /\ UNCHANGED <<clicks, uploadCycle>>
  /\ IF Truthy(data.error)
       THEN /\ activityLog' = addActivityLog(activityLog, <<data.error>>, "error")
            /\ UNCHANGED <<uploadedRows, previewTable, generateBtnDisabled,
                           validateBtnDisabled>>
       ELSE LET rows == IF data.rows = <<>> THEN <<>> ELSE data.rows[1]
                logged ==
                  addActivityLog(activityLog,
                    <<"File uploaded successfully. Showing first ",
                      NumStr(Min(Len(rows), PreviewCap)), " rows.">>, "success")
            IN /\ uploadedRows' = rows
               /\ IF Len(rows) = 0
                    THEN /\ activityLog' = logged
                         /\ previewTable' = NoDataPreview
                         /\ UNCHANGED <<generateBtnDisabled, validateBtnDisabled>>
                  ELSE IF ~data.columns
                    THEN /\ activityLog' =
                              addActivityLog(logged, <<"Upload failed: ", "TypeError">>, "error")
                         /\ UNCHANGED <<previewTable, generateBtnDisabled,
                                        validateBtnDisabled>>
                  ELSE /\ activityLog' = logged
                       /\ previewTable' = TablePreview(rows)
                       /\ validateBtnDisabled' = FALSE
                       /\ generateBtnDisabled' = FALSE
  /\ UNCHANGED <<currentValidationSession, generatedInvoices, jsonOutput,
                 postBtnDisabled, downloadJsonBtnDisabled, lastCreated,
                 validationUI, timers>>

(* UploadFailed giving Generate back to the operator. *)
UploadFailedReenables ==
  /\ BagIn(UploadRequest, pending)
  /\ pending' = Settle(pending, UploadRequest)
  /\ last' = Event("UploadFailed", UploadRequest, NoData)
  /\ UNCHANGED <<clicks, uploadCycle>>
  /\ activityLog' = addActivityLog(activityLog, <<"Upload failed: ", "Error">>, "error")
  /\ generateBtnDisabled' = FALSE
  /\ UNCHANGED <<pageState, previewTable, jsonOutput, postBtnDisabled,
                 downloadJsonBtnDisabled, validateBtnDisabled, lastCreated,
                 validationUI, timers>>

(* .catch of the upload: the request or res.json() failed. *)
UploadFailed ==
  /\ BagIn(UploadRequest, pending)
  /\ pending' = Settle(pending, UploadRequest)
  /\ last' = Event("UploadFailed", UploadRequest, NoData)
  /\ UNCHANGED <<clicks, uploadCycle>>
  /\ activityLog' = addActivityLog(activityLog, <<"Upload failed: ", "Error">>, "error")
  /\ UNCHANGED <<pageState, previewTable, jsonOutput, buttons, lastCreated,
                 validationUI, timers>>

(***************************************************************************)
(* Validation workflow.                                                    *)
(***************************************************************************)
(* getValidationReport without its guard on the session. *)
getValidationReportUnguarded(session, bag) == Issue(bag, ReportRequest(session))

getValidationReport(session, bag) ==
  IF ~Truthy(session) THEN bag ELSE Issue(bag, ReportRequest(session))

(* startValidation without its guard on the uploaded rows. *)
startValidationAnyRows(log, bag, apiTokenInput) ==
  LET apiToken == trim(apiTokenInput)
  IN IF apiToken = <<>>
       THEN /\ activityLog' =
                 addActivityLog(log, <<"Please enter API token for validation.">>, "error")
            /\ pending' = bag
            /\ UNCHANGED <<validationPanel, validationProgress>>
     ELSE /\ activityLog' =
               addActivityLog(log, <<"Starting comprehensive validation...">>, "validation")
          /\ showValidationPanel
          /\ updateValidationProgress(10, "Initializing validation...")
          /\ pending' = Issue(bag, StartValidationRequest)

(* startValidation, entered with the log its caller has written so far.    *)
startValidation(log, bag, apiTokenInput) ==
  LET apiToken == trim(apiTokenInput)
  IN IF apiToken = <<>>
       THEN /\ activityLog' =
                 addActivityLog(log, <<"Please enter API token for validation.">>, "error")
            /\ pending' = bag
            /\ UNCHANGED <<validationPanel, validationProgress>>
     ELSE IF Len(uploadedRows) = 0
       THEN /\ activityLog' = addActivityLog(log, <<"No data to validate.">>, "error")
            /\ pending' = bag
            /\ UNCHANGED <<validationPanel, validationProgress>>
     ELSE /\ activityLog' =
               addActivityLog(log, <<"Starting comprehensive validation...">>, "validation")
          /\ showValidationPanel
          /\ updateValidationProgress(10, "Initializing validation...")
          /\ pending' = Issue(bag, StartValidationRequest)

retryValidation(log, bag, apiTokenInput) ==
  startValidation(addActivityLog(log, <<"Retrying validation...">>, "validation"),
                  bag, apiTokenInput)

ValidateClick(apiTokenInput) ==
  /\ ~validateBtnDisabled
  /\ startValidation(activityLog, pending, apiTokenInput)
  /\ last' = Event("ValidateClick", NoRequest, <<trim(apiTokenInput)>>)
  /\ Activated
  /\ UNCHANGED <<pageState, previewTable, jsonOutput, buttons, lastCreated,
                 validationResults, timers>>

StartValidationResponses ==
  {[error |-> e, session_id |-> Undefined, validation_result |-> FALSE] :
     e \in ErrorTexts}
    \cup {[error |-> Undefined, session_id |-> s, validation_result |-> v] :
            s \in Sessions \cup {Undefined}, v \in BOOLEAN}

(* A timer remembers, as history, the session its response carried. *)
Timer(session) == [scheduledFor |-> session]

StartValidationResponse(request, data) ==
  /\ BagIn(request, pending)
  /\ request.url = <<"/start_validation">>
  /\ pending' = Settle(pending, request)
  /\ last' = Event("StartValidationResponse", request, data)
  /\ UNCHANGED <<clicks, uploadCycle>>
  /\ IF Truthy(data.error)
       THEN /\ activityLog' =
                 addActivityLog(activityLog, <<"Validation failed: ", data.error>>, "error")
            /\ hideValidationPanel
            /\ UNCHANGED <<currentValidationSession, validationProgress, timers>>
       ELSE /\ currentValidationSession' = data.session_id
            /\ activityLog' =
                 addActivityLog(activityLog, <<"Validation completed successfully!">>,
                                "validation")
            /\ updateValidationProgress(100, "Validation completed")
            /\ timers' = IF data.validation_result
                           THEN Issue(timers, Timer(data.session_id))
                           ELSE timers
            /\ UNCHANGED validationPanel
  /\ UNCHANGED <<uploadedRows, generatedInvoices, previewTable, jsonOutput, buttons,
                 lastCreated, validationResults>>

StartValidationFailed(request) ==
  /\ BagIn(request, pending)
  /\ request.url = <<"/start_validation">>
  /\ pending' = Settle(pending, request)
  /\ last' = Event("StartValidationFailed", request, NoData)
  /\ UNCHANGED <<clicks, uploadCycle>>
  /\ activityLog' =
       addActivityLog(activityLog, <<"Validation request failed: ", "Error">>, "error")
  /\ hideValidationPanel
  /\ UNCHANGED <<pageState, previewTable, jsonOutput, buttons, lastCreated,
                 validationProgress, validationResults, timers>>

(* TimerFires fetching the session its response carried, as a callback     *)
(* closing over data.session_id would.                                     *)
TimerFiresForScheduled(timer) ==
  /\ BagIn(timer, timers)
  /\ timers' = Settle(timers, timer)
  /\ pending' = getValidationReport(timer.scheduledFor, pending)
  /\ last' = Event("TimerFires", NoRequest, <<timer.scheduledFor>>)
  /\ UNCHANGED <<clicks, uploadCycle>>
  /\ UNCHANGED <<pageState, activityLog, previewTable, jsonOutput, buttons,
                 lastCreated, validationUI>>

(* The setTimeout(..., 500) callback: getValidationReport(). *)
TimerFires(timer) ==
  /\ BagIn(timer, timers)
  /\ timers' = Settle(timers, timer)
  /\ pending' = getValidationReport(currentValidationSession, pending)
  /\ last' = Event("TimerFires", NoRequest, <<timer.scheduledFor>>)
  /\ UNCHANGED <<clicks, uploadCycle>>
  /\ UNCHANGED <<pageState, activityLog, previewTable, jsonOutput, buttons,
                 lastCreated, validationUI>>

Summaries ==
  {[can_proceed |-> TRUE, critical_errors |-> 0],
   [can_proceed |-> FALSE, critical_errors |-> 1],
   [critical_errors |-> 1]}

ReportResponses ==
  {[error |-> e, summary |-> <<>>, auto_corrections |-> <<>>] : e \in ErrorTexts}
    \cup {[error |-> Undefined, summary |-> m, auto_corrections |-> c] :
            m \in {<<>>} \cup {<<x>> : x \in Summaries},
            c \in SeqsUpTo(AutoCorrections, MaxCorrections)}

(* What of the rendered markup the page reacts to: the "Generate JSON"     *)
(* button's disabled attribute and the correction labels (with the Apply   *)
(* button when there is one).                                              *)
(* summary.can_proceed of `const summary = results.summary || {}`. *)
can_proceed(results) ==
  /\ results.summary # <<>>
  /\ "can_proceed" \in DOMAIN results.summary[1]
  /\ results.summary[1].can_proceed

(* displayValidationResults rendering "Generate JSON" without the disabled *)
(* attribute whatever the summary says.                                    *)
displayValidationResultsUngated(results) ==
  validationResults' =
    [rendered |-> TRUE,
     generateDisabled |-> FALSE,
     retryDisabled |-> FALSE,
     skipDisabled |-> FALSE,
     labels |-> RenderLabels(results.auto_corrections)]

displayValidationResults(results) ==
  validationResults' =
    [rendered |-> TRUE,
     generateDisabled |-> ~can_proceed(results),
     retryDisabled |-> FALSE,
     skipDisabled |-> FALSE,
     labels |-> RenderLabels(results.auto_corrections)]

IsReportRequest(request) ==
  /\ Len(request.url) = 2
  /\ request.url[1] = "/validation_report/"

ReportResponse(request, data) ==
  /\ BagIn(request, pending)
  /\ IsReportRequest(request)
  /\ pending' = Settle(pending, request)
  /\ last' = Event("ReportResponse", request, data)
  /\ UNCHANGED <<clicks, uploadCycle>>
  /\ IF Truthy(data.error)
       THEN /\ activityLog' =
                 addActivityLog(activityLog,
                   <<"Failed to get validation report: ", data.error>>, "error")
            /\ UNCHANGED validationResults
       ELSE /\ displayValidationResults(data)
            /\ activityLog' =
                 addActivityLog(activityLog,
                   <<"Validation report generated. Found ",
                     NumStr(IF data.summary = <<>> THEN 0
                            ELSE data.summary[1].critical_errors),
                     " critical errors.">>, "validation")
  /\ UNCHANGED <<pageState, previewTable, jsonOutput, buttons, lastCreated,
                 validationPanel, validationProgress, timers>>

(* ReportFailed fetching the report again. *)
ReportFailedRetrying(request) ==
  /\ BagIn(request, pending)
  /\ IsReportRequest(request)
  /\ pending' = Issue(Settle(pending, request), request)
  /\ last' = Event("ReportFailed", request, NoData)
  /\ UNCHANGED <<clicks, uploadCycle>>
  /\ activityLog' =
       addActivityLog(activityLog, <<"Failed to fetch validation report: ", "Error">>,
                      "error")
  /\ UNCHANGED <<pageState, previewTable, jsonOutput, buttons, lastCreated,
                 validationUI, timers>>

ReportFailed(request) ==
  /\ BagIn(request, pending)
  /\ IsReportRequest(request)
  /\ pending' = Settle(pending, request)
  /\ last' = Event("ReportFailed", request, NoData)
  /\ UNCHANGED <<clicks, uploadCycle>>
  /\ activityLog' =
       addActivityLog(activityLog, <<"Failed to fetch validation report: ", "Error">>,
                      "error")
  /\ UNCHANGED <<pageState, previewTable, jsonOutput, buttons, lastCreated,
                 validationUI, timers>>

(* The rendered buttons can be pressed while the panel that holds them is  *)
(* displayed.                                                              *)
ReportShown == validationPanel /\ validationResults.rendered

(* applyCorrections with the boxes `checked` ticked. *)
ApplyClick(checked) ==
  /\ ReportShown
  /\ validationResults.labels # <<>>
  /\ last' = Event("ApplyClick", NoRequest, <<checked>>)
  /\ Activated
  /\ IF ~Truthy(currentValidationSession)
       THEN UNCHANGED <<activityLog, pending>>
       ELSE LET corrections ==
                  CollectCorrections(CheckedLabels(validationResults.labels, checked, 1))
            IN IF Len(corrections) = 0
                 THEN /\ activityLog' =
                           addActivityLog(activityLog, <<"No corrections selected.">>,
                                          "warning")
                      /\ pending' = pending
                 ELSE /\ activityLog' =
                           addActivityLog(activityLog,
                             <<"Applying ", NumStr(Len(corrections)), " corrections...">>,
                             "validation")
                      /\ pending' =
                           Issue(pending,
                                 ApplyRequest(currentValidationSession, corrections))
  /\ UNCHANGED <<pageState, previewTable, jsonOutput, buttons, lastCreated,
                 validationUI, timers>>

ApplyResponses ==
  {[error |-> e, applied_corrections |-> 0] : e \in ErrorTexts}
    \cup {[error |-> Undefined, applied_corrections |-> n] : n \in 0..MaxCorrections}

ApplyResponse(request, data, apiTokenInput) ==
  /\ BagIn(request, pending)
  /\ request.url = <<"/apply_corrections">>
  /\ last' = Event("ApplyResponse", request, data)
  /\ UNCHANGED <<clicks, uploadCycle>>
  /\ IF Truthy(data.error)
       THEN /\ activityLog' =
                 addActivityLog(activityLog,
                   <<"Failed to apply corrections: ", data.error>>, "error")
            /\ pending' = Settle(pending, request)
            /\ UNCHANGED <<validationPanel, validationProgress>>
       ELSE retryValidation(
              addActivityLog(activityLog,
                <<"Applied ", NumStr(data.applied_corrections),
                  " corrections successfully!">>, "success"),
              Settle(pending, request), apiTokenInput)
  /\ UNCHANGED <<pageState, previewTable, jsonOutput, buttons, lastCreated,
                 validationResults, timers>>

ApplyFailed(request) ==
  /\ BagIn(request, pending)
  /\ request.url = <<"/apply_corrections">>
  /\ pending' = Settle(pending, request)
  /\ last' = Event("ApplyFailed", request, NoData)
  /\ UNCHANGED <<clicks, uploadCycle>>
  /\ activityLog' =
       addActivityLog(activityLog, <<"Failed to apply corrections: ", "Error">>, "error")
  /\ UNCHANGED <<pageState, previewTable, jsonOutput, buttons, lastCreated,
                 validationUI, timers>>

RetryClick(apiTokenInput) ==
  /\ ReportShown
  /\ ~validationResults.retryDisabled
  /\ retryValidation(activityLog, pending, apiTokenInput)
  /\ last' = Event("RetryClick", NoRequest, <<trim(apiTokenInput)>>)
  /\ Activated
  /\ UNCHANGED <<pageState, previewTable, jsonOutput, buttons, lastCreated,
                 validationResults, timers>>

(***************************************************************************)
(* JSON generation.                                                        *)
(***************************************************************************)
(* generateJsonWithValidation, entered with the log its caller has written *)
(* so far.  clearPreviewHighlights resets cell styles that nothing in the  *)
(* script sets, and is left out.                                           *)
generateJsonWithValidation(log, skipFlag) ==
  /\ postBtnDisabled' = TRUE
  /\ downloadJsonBtnDisabled' = TRUE
  /\ jsonOutput' = <<>>
  /\ hideLastInvoices
  /\ IF Len(uploadedRows) = 0
       THEN /\ activityLog' = addActivityLog(log, <<"No data to generate JSON.">>, "error")
            /\ pending' = pending
       ELSE /\ activityLog' = addActivityLog(log, <<"Generating JSON...">>, "info")
            /\ pending' = Issue(pending, GenerateRequest(skipFlag, uploadCycle))

GenerateClick ==
  /\ ~generateBtnDisabled
  /\ generateJsonWithValidation(activityLog, FALSE)
  /\ last' = Event("GenerateClick", NoRequest, NoData)
  /\ Activated
  /\ UNCHANGED <<pageState, previewTable, generateBtnDisabled, validateBtnDisabled,
                 validationUI, timers>>

proceedToGenerate ==
  /\ ReportShown
  /\ ~validationResults.generateDisabled
  /\ generateJsonWithValidation(
       addActivityLog(activityLog, <<"Proceeding to JSON generation...">>, "info"), FALSE)
  /\ last' = Event("proceedToGenerate", NoRequest, NoData)
  /\ Activated
  /\ UNCHANGED <<pageState, previewTable, generateBtnDisabled, validateBtnDisabled,
                 validationUI, timers>>

skipValidation ==
  /\ ReportShown
  /\ ~validationResults.skipDisabled
  /\ hideValidationPanel
  /\ generateJsonWithValidation(
       addActivityLog(activityLog, <<"Skipping validation and generating JSON...">>,
                      "warning"), TRUE)
  /\ last' = Event("skipValidation", NoRequest, NoData)
  /\ Activated
  /\ UNCHANGED <<pageState, previewTable, generateBtnDisabled, validateBtnDisabled,
                 validationProgress, validationResults, timers>>

GenerateResponses ==
  {[error |-> e, validation_errors |-> v, session_id |-> s, invoices |-> Undefined] :
     e \in ErrorTexts, v \in BOOLEAN, s \in Sessions \cup {Undefined}}
    \cup {[error |-> Undefined, validation_errors |-> FALSE, session_id |-> Undefined,
           invoices |-> i] : i \in Invoices \cup {Undefined}}

GenerateResponse(request, data) ==
  /\ BagIn(request, pending)
  /\ request.url = <<"/generate_json">>
  /\ last' = Event("GenerateResponse", request, data)
  /\ UNCHANGED <<clicks, uploadCycle>>
  /\ IF Truthy(data.error)
       THEN IF data.validation_errors /\ ~request.skipValidation
              THEN /\ activityLog' =
                        addActivityLog(activityLog,
                          <<"Validation errors found during JSON generation. Please fix them first.">>,
                          "error")
                   /\ currentValidationSession' = data.session_id
                   /\ pending' =
                        getValidationReport(data.session_id, Settle(pending, request))
                   /\ UNCHANGED <<generatedInvoices, jsonOutput, postBtnDisabled,
                                  downloadJsonBtnDisabled, validationPanel>>
              ELSE /\ activityLog' = addActivityLog(activityLog, <<data.error>>, "error")
                   /\ pending' = Settle(pending, request)
                   /\ UNCHANGED <<currentValidationSession, generatedInvoices,
                                  jsonOutput, postBtnDisabled, downloadJsonBtnDisabled,
                                  validationPanel>>
       ELSE /\ activityLog' =
                 addActivityLog(activityLog, <<"JSON generated successfully.">>, "success")
            /\ jsonOutput' = JSONstringifyInvoices(data.invoices)
            /\ generatedInvoices' = data.invoices
            /\ postBtnDisabled' = FALSE
            /\ downloadJsonBtnDisabled' = FALSE
            /\ hideValidationPanel
            /\ pending' = Settle(pending, request)
            /\ UNCHANGED currentValidationSession
  /\ UNCHANGED <<uploadedRows, previewTable, generateBtnDisabled, validateBtnDisabled,
                 lastCreated, validationProgress, validationResults, timers>>

GenerateFailed(request) ==
  /\ BagIn(request, pending)
  /\ request.url = <<"/generate_json">>
  /\ pending' = Settle(pending, request)
  /\ last' = Event("GenerateFailed", request, NoData)
  /\ UNCHANGED <<clicks, uploadCycle>>
  /\ activityLog' =
       addActivityLog(activityLog, <<"JSON generation failed: ", "Error">>, "error")
  /\ postBtnDisabled' = TRUE
  /\ UNCHANGED <<pageState, previewTable, jsonOutput, generateBtnDisabled,
                 downloadJsonBtnDisabled, validateBtnDisabled, lastCreated,
                 validationUI, timers>>

(***************************************************************************)
(* Posting.                                                                *)
(***************************************************************************)
(* One per-invoice result {success, invoice_no, error, response}.          *)
PostEntry(success, invoice_no, error, response) ==
  [success |-> success, invoice_no |-> invoice_no, error |-> error,
   response |-> response]

PostEntries ==
  {PostEntry(TRUE, "INV-001", Undefined, <<"SINV-0007">>),
   PostEntry(TRUE, Undefined, Undefined, NoResponse),
   PostEntry(FALSE, "INV-002", "Duplicate", NoResponse),
   PostEntry(FALSE, Undefined, Undefined, <<"SINV-0008">>)}

(* Property names of a `results` mapping; "1" and "2" are array indices    *)
(* to Object.keys, which lists those first, in ascending order.            *)
ResultKeys == {"row-1", "1", "2"}
IndexKeys == {"1", "2"}

Item(key, value) == [key |-> key, value |-> value]

(* data.results: absent, a string, an array (items in order, keys unused)  *)
(* or an object (items in insertion order, keys distinct).                 *)
AbsentResults == [shape |-> "absent", items |-> <<>>]
StringResults == [shape |-> "string", items |-> <<>>]
ArrayResults(n) ==
  {[shape |-> "array", items |-> es] :
     es \in SeqsUpTo({Item("", e) : e \in PostEntries}, n)}
ObjectResults(n) ==
  {[shape |-> "object", items |-> es] :
     es \in {s \in SeqsUpTo({Item(k, e) : k \in ResultKeys, e \in PostEntries}, n) :
               \A i, j \in 1..Len(s) : i # j => s[i].key # s[j].key}}

PostResponses ==
  {[error |-> e, results |-> AbsentResults] : e \in ErrorTexts}
    \cup {[error |-> Undefined, results |-> r] :
            r \in {AbsentResults, StringResults} \cup ArrayResults(MaxResults)
                    \cup ObjectResults(MaxResults)}

(* Object.keys(results): the items in the order the loop visits them. *)
ObjectKeys(items) ==
  SelectSeq(items, LAMBDA x : x.key = "1")
    \o SelectSeq(items, LAMBDA x : x.key = "2")
    \o SelectSeq(items, LAMBDA x : x.key \notin IndexKeys)

Outcome(log, posted) == [log |-> log, posted |-> posted]

(* results.forEach(r => ...) of the array format. *)
RECURSIVE forEachResult(_, _, _)
forEachResult(items, log, posted) ==
  IF items = <<>> THEN Outcome(log, posted)
  ELSE LET r == Head(items).value
           invoiceNo == IF Truthy(r.invoice_no) THEN r.invoice_no ELSE "Unknown"
       IN IF r.success
            THEN forEachResult(Tail(items),
                   addActivityLog(log, <<"Invoice ", invoiceNo, " posted successfully">>,
                                  "success"),
                   Append(posted, invoiceNo))
            ELSE forEachResult(Tail(items),
                   addActivityLog(log,
                     <<"Invoice ", invoiceNo, " failed: ">>
                       \o JSONstringifyResponse(r.response), "error"),
                   posted)

(* Object.keys(results).forEach(invKey => ...) of the object format. *)
RECURSIVE forEachKey(_, _, _)
forEachKey(items, log, posted) ==
  IF items = <<>> THEN Outcome(log, posted)
  ELSE LET r == Head(items).value
           invKey == Head(items).key
       IN IF r.success
            THEN forEachKey(Tail(items),
                   addActivityLog(log, <<"Invoice ", invKey, " posted successfully">>,
                                  "success"),
                   Append(posted, invKey))
            ELSE forEachKey(Tail(items),
                   addActivityLog(log,
                     <<"Invoice ", invKey, " failed: ">>
                       \o (IF r.response # NoResponse
                             THEN JSONstringifyResponse(r.response)
                             ELSE JSONstringifyString(r.error)), "error"),
                   posted)

(* PostClick testing the endpoint before the token. *)
PostClickEndpointFirst(apiTokenInput, endpointInput) ==
  /\ ~postBtnDisabled
  /\ last' = Event("PostClick", NoRequest, <<trim(apiTokenInput), trim(endpointInput)>>)
  /\ Activated
  /\ IF ~Truthy(generatedInvoices)
       THEN /\ activityLog' =
                 addActivityLog(activityLog, <<"No generated invoices to post.">>, "error")
            /\ pending' = pending
     ELSE IF trim(endpointInput) = <<>>
       THEN /\ activityLog' =
                 addActivityLog(activityLog, <<"Please enter API endpoint.">>, "error")
            /\ pending' = pending
     ELSE IF trim(apiTokenInput) = <<>>
       THEN /\ activityLog' =
                 addActivityLog(activityLog, <<"Please enter API token.">>, "error")
            /\ pending' = pending
     ELSE /\ activityLog' =
               addActivityLog(activityLog, <<"Posting invoices to ERPNext...">>, "info")
          /\ pending' = Issue(pending, PostRequest)
  /\ UNCHANGED <<pageState, previewTable, jsonOutput, buttons, lastCreated,
                 validationUI, timers>>

PostClick(apiTokenInput, endpointInput) ==
  /\ ~postBtnDisabled
  /\ last' = Event("PostClick", NoRequest, <<trim(apiTokenInput), trim(endpointInput)>>)
  /\ Activated
  /\ IF ~Truthy(generatedInvoices)
       THEN /\ activityLog' =
                 addActivityLog(activityLog, <<"No generated invoices to post.">>, "error")
            /\ pending' = pending
     ELSE IF trim(apiTokenInput) = <<>>
       THEN /\ activityLog' =
                 addActivityLog(activityLog, <<"Please enter API token.">>, "error")
            /\ pending' = pending
     ELSE IF trim(endpointInput) = <<>>
       THEN /\ activityLog' =
                 addActivityLog(activityLog, <<"Please enter API endpoint.">>, "error")
            /\ pending' = pending
     ELSE /\ activityLog' =
               addActivityLog(activityLog, <<"Posting invoices to ERPNext...">>, "info")
          /\ pending' = Issue(pending, PostRequest)
  /\ UNCHANGED <<pageState, previewTable, jsonOutput, buttons, lastCreated,
                 validationUI, timers>>

PostResponse(request, data) ==
  /\ BagIn(request, pending)
  /\ request.url = <<"/post_invoice">>
  /\ pending' = Settle(pending, request)
  /\ last' = Event("PostResponse", request, data)
  /\ UNCHANGED <<clicks, uploadCycle>>
  /\ IF Truthy(data.error)
       THEN /\ activityLog' =
                 addActivityLog(activityLog, <<"Error: ", data.error>>, "error")
            /\ UNCHANGED lastCreated
     ELSE IF data.results.shape = "absent"
       THEN /\ activityLog' =
                 addActivityLog(activityLog, <<"No results returned from server">>,
                                "warning")
            /\ UNCHANGED lastCreated
     ELSE LET results == data.results
              done ==
                IF results.shape = "array"
                  THEN forEachResult(results.items, activityLog, <<>>)
                ELSE IF results.shape = "object"
                  THEN forEachKey(ObjectKeys(results.items), activityLog, <<>>)
                ELSE Outcome(activityLog, <<>>)
          IN IF Len(done.posted) > 0
               THEN /\ showLastInvoices(done.posted)
                    /\ activityLog' =
                         addActivityLog(done.log,
                           <<"Successfully posted ", NumStr(Len(done.posted)),
                             " invoice(s)">>, "success")
               ELSE /\ activityLog' = done.log
                    /\ UNCHANGED lastCreated
  /\ UNCHANGED <<pageState, previewTable, jsonOutput, buttons, validationUI, timers>>

PostFailed(request) ==
  /\ BagIn(request, pending)
  /\ request.url = <<"/post_invoice">>
  /\ pending' = Settle(pending, request)
  /\ last' = Event("PostFailed", request, NoData)
  /\ UNCHANGED <<clicks, uploadCycle>>
  /\ activityLog' = addActivityLog(activityLog, <<"Post failed: ", "Error">>, "error")
  /\ UNCHANGED <<pageState, previewTable, jsonOutput, buttons, lastCreated,
                 validationUI, timers>>

(***************************************************************************)
(* Download: builds and clicks a data: link; the page state is untouched.  *)
(***************************************************************************)
DownloadClick ==
  /\ ~downloadJsonBtnDisabled
  /\ last' = Event("DownloadClick", NoRequest, <<Truthy(generatedInvoices)>>)
  /\ Activated
  /\ UNCHANGED <<pageState, activityLog, previewTable, jsonOutput, buttons,
                 lastCreated, validationUI, pending, timers>>

(***************************************************************************)
(* The page: any enabled control may be activated and any request in       *)
(* flight may be answered, in any order.  The operator's activations are   *)
(* counted and capped, which also bounds the log and the requests in       *)
(* flight.                                                                 *)
(***************************************************************************)
Requests == BagToSet(pending)

Next ==
  \/ \E hasFile \in BOOLEAN : UploadClick(hasFile)
  \/ \E data \in UploadResponses : UploadResponse(data)
  \/ UploadFailed
  \/ \E token \in FieldValues : ValidateClick(token)
  \/ \E request \in Requests, data \in StartValidationResponses :
       StartValidationResponse(request, data)
  \/ \E request \in Requests : StartValidationFailed(request)
  \/ \E timer \in BagToSet(timers) : TimerFires(timer)
  \/ \E request \in Requests, data \in ReportResponses : ReportResponse(request, data)
  \/ \E request \in Requests : ReportFailed(request)
  \/ \E checked \in SUBSET (1..Len(validationResults.labels)) : ApplyClick(checked)
  \/ \E request \in Requests, data \in ApplyResponses, token \in FieldValues :
       ApplyResponse(request, data, token)
  \/ \E request \in Requests : ApplyFailed(request)
  \/ \E token \in FieldValues : RetryClick(token)
  \/ proceedToGenerate
  \/ skipValidation
  \/ GenerateClick
  \/ \E request \in Requests, data \in GenerateResponses : GenerateResponse(request, data)
  \/ \E request \in Requests : GenerateFailed(request)
  \/ \E token, endpoint \in FieldValues : PostClick(token, endpoint)
  \/ \E request \in Requests, data \in PostResponses :
       PostResponse(request, data)
  \/ \E request \in Requests : PostFailed(request)
  \/ DownloadClick

Spec == Init /\ [][Next]_vars

(* The event loop runs the continuation of every settled request and the   *)
(* callback of every timer that is due.                                    *)
Deliver ==
  \/ \E data \in UploadResponses : UploadResponse(data)
  \/ UploadFailed
  \/ \E request \in Requests, data \in StartValidationResponses :
       StartValidationResponse(request, data)
  \/ \E request \in Requests : StartValidationFailed(request)
  \/ \E timer \in BagToSet(timers) : TimerFires(timer)
  \/ \E request \in Requests, data \in ReportResponses : ReportResponse(request, data)
  \/ \E request \in Requests : ReportFailed(request)
  \/ \E request \in Requests, data \in ApplyResponses, token \in FieldValues :
       ApplyResponse(request, data, token)
  \/ \E request \in Requests : ApplyFailed(request)
  \/ \E request \in Requests, data \in GenerateResponses : GenerateResponse(request, data)
  \/ \E request \in Requests : GenerateFailed(request)
  \/ \E request \in Requests, data \in PostResponses : PostResponse(request, data)
  \/ \E request \in Requests : PostFailed(request)

(* The page when every response arrives and every timer fires. *)
SpecDelivered == Init /\ [][Next]_vars /\ WF_vars(Deliver)

(***************************************************************************)
(* The page after one complete cycle: a file with one row was uploaded,    *)
(* its invoices were generated and posted, and one invoice was created.    *)
(* It is the state the run                                                 *)
(*   UploadClick(TRUE), UploadResponse, GenerateClick, GenerateResponse,   *)
(*   PostClick, PostResponse                                               *)
(* of Spec ends in, with LateClicks activations of the budget left.        *)
(***************************************************************************)
CycleData == [error |-> Undefined,
              results |-> [shape |-> "array",
                           items |-> <<Item("", PostEntry(TRUE, "INV-001", Undefined,
                                                          <<"SINV-0007">>))>>]]

CycleLog ==
  LET posted ==
        forEachResult(CycleData.results.items,
          addActivityLog(
            addActivityLog(
              addActivityLog(
                addActivityLog(
                  addActivityLog(<<>>, <<"Uploading and processing...">>, "info"),
                  <<"File uploaded successfully. Showing first ", "1", " rows.">>,
                  "success"),
                <<"Generating JSON...">>, "info"),
              <<"JSON generated successfully.">>, "success"),
            <<"Posting invoices to ERPNext...">>, "info"),
          <<>>)
  IN addActivityLog(posted.log, <<"Successfully posted ", "1", " invoice(s)">>, "success")

CyclePage ==
  /\ uploadedRows = <<"r1">>
  /\ currentValidationSession = Null
  /\ generatedInvoices = "inv1"
  /\ activityLog = CycleLog
  /\ previewTable = TablePreview(<<"r1">>)
  /\ jsonOutput = JSONstringifyInvoices("inv1")
  /\ generateBtnDisabled = FALSE
  /\ postBtnDisabled = FALSE
  /\ downloadJsonBtnDisabled = FALSE
  /\ validateBtnDisabled = FALSE
  /\ lastCreatedBox = TRUE
  /\ lastInvoiceList = <<"INV-001">>
  /\ validationPanel = FALSE
  /\ validationProgress = NoProgress
  /\ validationResults = NoResults
  /\ pending = EmptyBag
  /\ timers = EmptyBag
  /\ last = Event("PostResponse", PostRequest, CycleData)

InitCycle ==
  /\ CyclePage
  /\ clicks = MaxClicks - LateClicks
  /\ uploadCycle = 1

SpecSession == (Init \/ InitCycle) /\ [][Next]_vars

(***************************************************************************)
(* The recorder on its own: addActivityLog called with any category, among *)
(* them one the icons and colors tables do not list.                       *)
(***************************************************************************)
KnownCategories == {"info", "success", "error", "warning", "validation"}
Categories == KnownCategories \cup {"debug"}
LogMessages == {<<"a">>, <<"b">>}

Record(message, type) ==
  /\ Len(activityLog) < MaxLogged
  /\ activityLog' = addActivityLog(activityLog, message, type)
  /\ last' = Event("addActivityLog", NoRequest, <<message, type>>)
  /\ UNCHANGED <<pageState, previewTable, jsonOutput, buttons, lastCreated,
                 validationUI, pending, timers, clicks, uploadCycle>>

NextLog == \E message \in LogMessages, type \in Categories : Record(message, type)

SpecLog == Init /\ [][NextLog]_vars

(***************************************************************************)
(* escapeHtml on its own: the continuation of the first upload has stored  *)
(* the rows and goes on to render the preview.  A text is a tuple of       *)
(* characters; a row is written as the text of its one cell.  last and     *)
(* clicks follow the steps of this specification, of which none has run.   *)
(* The Upload activation has disabled Generate, Post and Download;         *)
(* Validate is as the markup has it.                                       *)
(***************************************************************************)
Chars == {"&", "<", ">", Quote, "'", "a", "m", "p", ";", "l", "t"}
Texts == SeqsUpTo(Chars, MaxText)

EntityAmp == <<"&", "a", "m", "p", ";">>
EntityLt == <<"&", "l", "t", ";">>
EntityGt == <<"&", "g", "t", ";">>
EntityQuot == <<"&", "q", "u", "o", "t", ";">>
EntityApos == <<"&", "#", "0", "3", "9", ";">>

(* String.prototype.replace with a global pattern of literal characters:   *)
(* every occurrence, left to right, without rescanning what was inserted.  *)
RECURSIVE replace(_, _, _)
replace(text, pattern, by) ==
  IF Len(text) < Len(pattern) THEN text
  ELSE IF SubSeq(text, 1, Len(pattern)) = pattern
    THEN by \o replace(SubSeq(text, Len(pattern) + 1, Len(text)), pattern, by)
  ELSE <<text[1]>> \o replace(Tail(text), pattern, by)

(* escapeHtml with the ampersand replaced last. *)
escapeHtmlAmpLast(unsafe) ==
  replace(replace(replace(replace(replace(unsafe,
    <<"<">>, EntityLt), <<">">>, EntityGt), <<Quote>>, EntityQuot),
    <<"'">>, EntityApos), <<"&">>, EntityAmp)

escapeHtml(unsafe) ==
  replace(replace(replace(replace(replace(unsafe,
    <<"&">>, EntityAmp), <<"<">>, EntityLt), <<">">>, EntityGt),
    <<Quote>>, EntityQuot), <<"'">>, EntityApos)

InitEscape ==
  /\ uploadedRows \in {<<text>> : text \in Texts}
  /\ currentValidationSession = Null
  /\ generatedInvoices = Undefined
  /\ activityLog = addActivityLog(<<>>, <<"Uploading and processing...">>, "info")
  /\ previewTable = NoPreview
  /\ jsonOutput = <<>>
  /\ generateBtnDisabled = TRUE
  /\ postBtnDisabled = TRUE
  /\ downloadJsonBtnDisabled = TRUE
  /\ validateBtnDisabled \in BOOLEAN
  /\ lastCreatedBox = FALSE
  /\ lastInvoiceList = <<>>
  /\ validationPanel = FALSE
  /\ validationProgress = NoProgress
  /\ validationResults = NoResults
  /\ pending = EmptyBag
  /\ timers = EmptyBag
  /\ last = Event("load", NoRequest, NoData)
  /\ clicks = 0
  /\ uploadCycle = 1

(* The rest of the continuation: the success line, the cells of the        *)
(* preview, each escaped, and the two actions enabled.  The continuation   *)
(* runs once.                                                              *)
RenderCells ==
  /\ last.op # "escapeHtml"
  /\ activityLog' =
       addActivityLog(activityLog,
         <<"File uploaded successfully. Showing first ",
           NumStr(Min(Len(uploadedRows), PreviewCap)), " rows.">>, "success")
  /\ previewTable' =
       [tag |-> "table",
        rows |-> [i \in 1..Min(Len(uploadedRows), PreviewCap) |->
                    escapeHtml(uploadedRows[i])]]
  /\ validateBtnDisabled' = FALSE
  /\ generateBtnDisabled' = FALSE
  /\ last' = Event("escapeHtml", NoRequest, NoData)
  /\ UNCHANGED <<pageState, jsonOutput, postBtnDisabled, downloadJsonBtnDisabled,
                 lastCreated, validationUI, pending, timers, clicks, uploadCycle>>

NextEscape == RenderCells

SpecEscape == InitEscape /\ [][NextEscape]_vars

(***************************************************************************)
(* Properties.                                                             *)
(*                                                                         *)
(* `last` names the handler that ran in the step that led to a state, so   *)
(* a predicate on last' picks out the steps of one handler.                *)
(***************************************************************************)
NewLines == SubSeq(activityLog', Len(activityLog) + 1, Len(activityLog'))

LinesOfType(lines, type) == SelectSeq(lines, LAMBDA l : l.color = colors(type))

(* seq restricted to the indices in idx, in order. *)
SubsequenceAt(seq, idx) ==
  LET F[i \in 0..Len(seq)] ==
        IF i = 0 THEN <<>>
        ELSE F[i - 1] \o (IF i \in idx THEN <<seq[i]>> ELSE <<>>)
  IN F[Len(seq)]

BlockedGeneration(e) ==
  /\ e.op = "GenerateResponse"
  /\ Truthy(e.data.error)
  /\ e.data.validation_errors
  /\ ~e.request.skipValidation

PlainGenerateFailure(e) ==
  \/ e.op = "GenerateFailed"
  \/ /\ e.op = "GenerateResponse"
     /\ Truthy(e.data.error)
     /\ ~(e.data.validation_errors /\ ~e.request.skipValidation)

(* C1: after a /generate_json failure other than the validation-blocked    *)
(* case has been processed (a backend error without validation_errors or   *)
(* for a request with the skip flag, or a transport failure), the Post     *)
(* action is disabled.                                                     *)
C1_PostDisabledAfterGenerateFailure == PlainGenerateFailure(last) => postBtnDisabled

EmptyUpload(e) ==
  /\ e.op = "UploadResponse"
  /\ ~Truthy(e.data.error)
  /\ (e.data.rows = <<>> \/ e.data.rows[1] = <<>>)

(* C2: whenever an /upload response without error and with zero rows (or   *)
(* no rows field) has been processed, the Generate action is disabled and  *)
(* the preview shows the "no data" placeholder.                            *)
C2_EmptyUploadDisablesGenerate ==
  EmptyUpload(last) => generateBtnDisabled /\ previewTable = NoDataPreview

ValidationErrorsLine ==
  LogEntry(<<"Validation errors found during JSON generation. Please fix them first.">>,
           "error")

(* C3, as claimed: a validation-blocked /generate_json response (error     *)
(* with validation_errors, skip flag false) logs the one "Validation       *)
(* errors found" error line and not the raw error, makes the response's    *)
(* session_id the current validation session, and issues GET               *)
(* /validation_report/<session_id> - also when it carries no session_id.   *)
C3_BlockedGenerationAlwaysFetches ==
  [][BlockedGeneration(last') =>
       /\ activityLog' = Append(activityLog, ValidationErrorsLine)
       /\ currentValidationSession' = last'.data.session_id
       /\ pending' = Issue(Settle(pending, last'.request),
                           ReportRequest(last'.data.session_id))]_vars

(* C3, amended: as above, but the report request is issued only when the   *)
(* response carries a session_id; without one the current validation       *)
(* session becomes empty and no request is issued.                         *)
C3_BlockedGenerationFetchesGivenSession ==
  [][BlockedGeneration(last') =>
       /\ activityLog' = Append(activityLog, ValidationErrorsLine)
       /\ currentValidationSession' = last'.data.session_id
       /\ pending' = IF last'.data.session_id \in Sessions
                       THEN Issue(Settle(pending, last'.request),
                                  ReportRequest(last'.data.session_id))
                       ELSE Settle(pending, last'.request)]_vars

C3_Witness ==
  /\ BlockedGeneration(last)
  /\ currentValidationSession \in Sessions
  /\ BagIn(ReportRequest(currentValidationSession), pending)
  /\ activityLog[Len(activityLog)] = ValidationErrorsLine

ArrayPosted(e) ==
  /\ e.op = "PostResponse"
  /\ ~Truthy(e.data.error)
  /\ e.data.results.shape = "array"

(* C4: for a /post_invoice response whose results is an ordered sequence   *)
(* of entries with an invoice_no: afterwards the Last-Created display      *)
(* lists exactly the invoice_no of the successful entries, in response     *)
(* order; the log gained a success line for each successful entry and one  *)
(* error line for each failed entry, naming it, and that error line        *)
(* contains the entry's explicit error text when it has one.               *)
C4_SequenceResultsReported ==
  [][(/\ ArrayPosted(last')
       /\ \A i \in 1..Len(last'.data.results.items) :
            Truthy(last'.data.results.items[i].value.invoice_no)) =>
       LET items == last'.data.results.items
           ok == SelectSeq(items, LAMBDA x : x.value.success)
           failed == SelectSeq(items, LAMBDA x : ~x.value.success)
       IN /\ lastInvoiceList' = [i \in 1..Len(ok) |-> ok[i].value.invoice_no]
          /\ \A i \in 1..Len(ok) :
               \E k \in 1..Len(NewLines) :
                 /\ NewLines[k].color = colors("success")
                 /\ Mentions(NewLines[k].message, ok[i].value.invoice_no)
          /\ Len(LinesOfType(NewLines, "error")) = Len(failed)
          /\ \A i \in 1..Len(failed) :
               \E k \in 1..Len(NewLines) :
                 /\ NewLines[k].color = colors("error")
                 /\ Mentions(NewLines[k].message, failed[i].value.invoice_no)
                 /\ Truthy(failed[i].value.error) =>
                      Mentions(NewLines[k].message, failed[i].value.error)]_vars

MappingPosted(e) ==
  /\ e.op = "PostResponse"
  /\ ~Truthy(e.data.error)
  /\ e.data.results.shape = "object"

(* C5: for a /post_invoice response whose results is a mapping keyed by    *)
(* invoice label: each successful entry produces a success line naming its *)
(* key, its key is in the Last-Created list, and when its nested response  *)
(* carries a created-record name (response.data.name) a further log line   *)
(* echoes that name.                                                       *)
C5_MappingResultsEchoCreatedName ==
  [][MappingPosted(last') =>
       LET items == last'.data.results.items
       IN \A i \in 1..Len(items) :
            items[i].value.success =>
              /\ \E k \in 1..Len(NewLines) :
                   /\ NewLines[k].color = colors("success")
                   /\ Mentions(NewLines[k].message, items[i].key)
              /\ \E k \in 1..Len(lastInvoiceList') :
                   lastInvoiceList'[k] = items[i].key
              /\ items[i].value.response # NoResponse =>
                   \E k \in 1..Len(NewLines) :
                     Mentions(NewLines[k].message, items[i].value.response[1])]_vars

ReportRendered(e) == e.op = "ReportResponse" /\ ~Truthy(e.data.error)

(* C6: once a report is rendered, whichever of its corrections are         *)
(* checked, applyCorrections collects for them exactly the {type,          *)
(* original, suggested} of the auto_corrections they were rendered from,   *)
(* in order; a label that does not match the pattern contributes no entry. *)
C6_ParsedCorrectionsEqualRendered ==
  ReportRendered(last) =>
    \A checked \in SUBSET (1..Len(validationResults.labels)) :
      /\ CollectCorrections(CheckedLabels(validationResults.labels, checked, 1))
           = SubsequenceAt(last.data.auto_corrections, checked)
      /\ \A i \in checked :
           LabelMatch(validationResults.labels[i]) = <<>> =>
             ParseLabel(validationResults.labels[i]) = <<>>

(* C7: activating Apply with a current validation session and at least one *)
(* rendered correction checked issues POST /apply_corrections with that    *)
(* session_id and the checked corrections; with none checked it logs one   *)
(* warning and issues nothing; a response without error is followed by a   *)
(* new /start_validation request; a response with error or a transport     *)
(* failure issues no further request.                                      *)
C7_ApplyIssuesRequests ==
  [][/\ (last'.op = "ApplyClick" /\ Truthy(currentValidationSession)) =>
          IF last'.data[1] # {}
            THEN \E r \in BagToSet(pending') :
                   /\ r.url = <<"/apply_corrections">>
                   /\ r.session_id = currentValidationSession
                   /\ Len(r.corrections) = Cardinality(last'.data[1])
                   /\ pending' = Issue(pending, r)
            ELSE /\ pending' = pending
                 /\ activityLog' =
                      Append(activityLog,
                             LogEntry(<<"No corrections selected.">>, "warning"))
     /\ (last'.op = "ApplyResponse" /\ ~Truthy(last'.data.error)) =>
          pending' = Issue(Settle(pending, last'.request), StartValidationRequest)
     /\ (\/ last'.op = "ApplyFailed"
         \/ last'.op = "ApplyResponse" /\ Truthy(last'.data.error)) =>
          pending' = Settle(pending, last'.request)]_vars

(* C8, as claimed: the report fetch scheduled by a /start_validation       *)
(* response carrying session_id s is issued to /validation_report/s,       *)
(* whatever happens during the delay.                                      *)
C8_ScheduledFetchTargetsItsSession ==
  [][(last'.op = "TimerFires" /\ last'.data[1] \in Sessions) =>
       pending' = Issue(pending, ReportRequest(last'.data[1]))]_vars

(* C8, amended: a /start_validation response without error makes its       *)
(* session_id s the current validation session and, when it carries        *)
(* validation_result, schedules one report fetch and nothing else does.    *)
(* When the delay ends the callback takes no argument: it reads the        *)
(* current validation session, leaves it as it is, and issues the fetch to *)
(* /validation_report/<current session>, or none when there is no current  *)
(* session then; so when the current session is still s the fetch goes to  *)
(* /validation_report/s.  The current session is written only by a         *)
(* /start_validation response without error or by a validation-blocked     *)
(* /generate_json response; so it is still s whenever no such response was *)
(* processed during the delay.                                             *)
C8_ScheduledFetchTargetsCurrentSession ==
  [][/\ (last'.op = "StartValidationResponse" /\ ~Truthy(last'.data.error)) =>
          /\ currentValidationSession' = last'.data.session_id
          /\ timers' = IF last'.data.validation_result
                         THEN Issue(timers, Timer(last'.data.session_id))
                         ELSE timers
     /\ last'.op = "TimerFires" =>
          /\ BagIn(Timer(last'.data[1]), timers)
          /\ timers' = Settle(timers, Timer(last'.data[1]))
          /\ currentValidationSession' = currentValidationSession
          /\ pending' = IF currentValidationSession \in Sessions
                          THEN Issue(pending, ReportRequest(currentValidationSession))
                          ELSE pending
          /\ (last'.data[1] \in Sessions
                /\ currentValidationSession = last'.data[1]) =>
               pending' = Issue(pending, ReportRequest(last'.data[1]))
     /\ currentValidationSession' # currentValidationSession =>
          \/ last'.op = "StartValidationResponse" /\ ~Truthy(last'.data.error)
          \/ BlockedGeneration(last')
     /\ timers' # timers =>
          \/ /\ last'.op = "StartValidationResponse"
             /\ ~Truthy(last'.data.error)
             /\ last'.data.validation_result
          \/ last'.op = "TimerFires"]_vars

(* The session was stored by the /start_validation response that scheduled *)
(* the fetch: no validation-blocked generation has been processed.         *)
C8_Witness ==
  /\ last.op = "TimerFires"
  /\ last.data[1] \in Sessions
  /\ last.data[1] = currentValidationSession
  /\ BagIn(ReportRequest(last.data[1]), pending)
  /\ \A k \in 1..Len(activityLog) : activityLog[k] # ValidationErrorsLine
  /\ \E k \in 1..Len(activityLog) :
       activityLog[k] = LogEntry(<<"Validation completed successfully!">>, "validation")

(* The rows an /upload response carries: data.rows || []. *)
RowsOf(data) == IF data.rows = <<>> THEN <<>> ELSE data.rows[1]

(* data.columns.forEach throws: the response has rows and no columns. *)
PreviewThrows(e) ==
  /\ e.op = "UploadResponse"
  /\ ~Truthy(e.data.error)
  /\ Len(RowsOf(e.data)) # 0
  /\ ~e.data.columns

(* The data.error branch, or the .catch of the upload: reached when the    *)
(* fetch or res.json() rejects and when the continuation throws.           *)
UploadFailure(e) ==
  \/ e.op = "UploadFailed"
  \/ e.op = "UploadResponse" /\ Truthy(e.data.error)
  \/ PreviewThrows(e)

(* C9: after an /upload response carrying error, or a transport or parse   *)
(* failure of the upload, has been processed (the failures other than a    *)
(* throw while the preview is rendered), the Rows are what they were and   *)
(* Generate, Validate, Post and Download are all disabled.                 *)
C9_FailedUploadLeavesAllDisabled ==
  [][(UploadFailure(last') /\ ~PreviewThrows(last')) =>
       /\ uploadedRows' = uploadedRows
       /\ generateBtnDisabled'
       /\ validateBtnDisabled'
       /\ postBtnDisabled'
       /\ downloadJsonBtnDisabled']_vars

(* C10: every activation of Upload, from any state, removes all prior log  *)
(* entries, disables Generate, Post and Download, empties the JSON output  *)
(* and hides the Last-Created and Validation panels; with no file selected *)
(* it then logs exactly one error entry and issues no request; with a file *)
(* the log holds only the line written for the new upload, and the one     *)
(* /upload request is issued.                                              *)
C10_UploadClickResetsPage ==
  [][last'.op = "UploadClick" =>
       /\ generateBtnDisabled'
       /\ postBtnDisabled'
       /\ downloadJsonBtnDisabled'
       /\ jsonOutput' = <<>>
       /\ lastCreatedBox' = FALSE
       /\ lastInvoiceList' = <<>>
       /\ validationPanel' = FALSE
       /\ Len(activityLog') = 1
       /\ IF last'.data[1]
            THEN /\ activityLog'[1].color = colors("info")
                 /\ pending' = Issue(pending, UploadRequest)
            ELSE /\ activityLog'[1] = LogEntry(<<"Please select a file first.">>, "error")
                 /\ pending' = pending]_vars

C10_Witness ==
  /\ last.op = "UploadClick"
  /\ ~last.data[1]
  /\ Truthy(generatedInvoices)
  /\ validationResults.rendered
  /\ activityLog = <<LogEntry(<<"Please select a file first.">>, "error")>>
  /\ pending = EmptyBag

NoPayloadLine == LogEntry(<<"No generated invoices to post.">>, "error")
NoTokenLine == LogEntry(<<"Please enter API token.">>, "error")
NoEndpointLine == LogEntry(<<"Please enter API endpoint.">>, "error")

(* C11: activating Post when no generated payload exists, or the trimmed   *)
(* API token is empty, or the trimmed endpoint is empty, logs exactly one  *)
(* error line - a different one for each missing precondition, the first   *)
(* missing one in the order payload, token, endpoint - issues no request   *)
(* and leaves rows, payload, session, the buttons and the Last-Created     *)
(* panel unchanged.                                                        *)
C11_PostPreconditions ==
  [][(/\ last'.op = "PostClick"
      /\ \/ ~Truthy(generatedInvoices)
         \/ last'.data[1] = <<>>
         \/ last'.data[2] = <<>>) =>
       /\ activityLog' =
            Append(activityLog,
                   IF ~Truthy(generatedInvoices) THEN NoPayloadLine
                   ELSE IF last'.data[1] = <<>> THEN NoTokenLine
                   ELSE NoEndpointLine)
       /\ Cardinality({NoPayloadLine, NoTokenLine, NoEndpointLine}) = 3
       /\ pending' = pending
       /\ UNCHANGED <<pageState, buttons, lastCreated>>]_vars

C11_Witness ==
  /\ last.op = "PostClick"
  /\ Truthy(generatedInvoices)
  /\ last.data[1] # <<>>
  /\ last.data[2] = <<>>
  /\ activityLog[Len(activityLog)] = NoEndpointLine
  /\ pending = EmptyBag

GuardedValidation(e, rows) ==
  /\ e.op \in {"ValidateClick", "RetryClick"}
  /\ (e.data[1] = <<>> \/ Len(rows) = 0)

RetryingLine == LogEntry(<<"Retrying validation...">>, "validation")
NoValidationTokenLine == LogEntry(<<"Please enter API token for validation.">>, "error")
NoValidationDataLine == LogEntry(<<"No data to validate.">>, "error")

(* C12: activating Validate or Retry with an empty trimmed API token, or   *)
(* with zero uploaded rows, logs one error line (after Retry's own         *)
(* "Retrying validation..." line) and aborts: no request is issued, the    *)
(* validation panel's visibility and the progress are not changed, and the *)
(* current validation session is unchanged.                                *)
C12_StartValidationGuards ==
  [][GuardedValidation(last', uploadedRows) =>
       /\ activityLog' =
            activityLog
              \o (IF last'.op = "RetryClick" THEN <<RetryingLine>> ELSE <<>>)
              \o <<IF last'.data[1] = <<>> THEN NoValidationTokenLine
                   ELSE NoValidationDataLine>>
       /\ Len(LinesOfType(NewLines, "error")) = 1
       /\ pending' = pending
       /\ UNCHANGED <<validationPanel, validationProgress, currentValidationSession>>]_vars

C12_Witness ==
  /\ last.op = "ValidateClick"
  /\ last.data[1] # <<>>
  /\ uploadedRows = <<>>
  /\ activityLog[Len(activityLog)] = NoValidationDataLine
  /\ ~validationPanel
  /\ \A r \in BagToSet(pending) : r.url # <<"/start_validation">>

ShapeAmbiguous(e) ==
  /\ e.op = "PostResponse"
  /\ ~Truthy(e.data.error)
  /\ e.data.results.shape \in {"absent", "string"}

(* C13: when a /post_invoice response has no top-level error and its       *)
(* results is absent, or present but neither an ordered sequence nor a     *)
(* mapping (a string, say), exactly one warning line is logged, no success *)
(* line is logged and the Last-Created display is not changed.             *)
C13_AmbiguousResultsWarn ==
  [][ShapeAmbiguous(last') =>
       /\ Len(LinesOfType(NewLines, "warning")) = 1
       /\ Len(LinesOfType(NewLines, "success")) = 0
       /\ UNCHANGED lastCreated]_vars

(* C14: a rendered report's "Generate JSON" action is enabled if and only  *)
(* if that report's summary.can_proceed is true (a missing summary or flag *)
(* counts as false), its "Retry Validation" and "Skip & Generate" actions  *)
(* are enabled whatever can_proceed is, and nothing but the rendering of a *)
(* report changes the rendered actions.                                    *)
C14_GenerateGatedByCanProceed ==
  [][IF ReportRendered(last')
       THEN /\ validationResults'.rendered
            /\ validationResults'.generateDisabled = ~can_proceed(last'.data)
            /\ ~validationResults'.retryDisabled
            /\ ~validationResults'.skipDisabled
       ELSE UNCHANGED validationResults]_vars

C14_Witness ==
  /\ ReportRendered(last)
  /\ last.data.summary # <<>>
  /\ "can_proceed" \notin DOMAIN last.data.summary[1]
  /\ validationResults.generateDisabled
  /\ ~validationResults.skipDisabled

(* C15: the activity log is append-only except at Upload: every handler    *)
(* other than the Upload activation leaves the existing entries in place   *)
(* and in order, only appending, and a call of the recorder appends        *)
(* exactly one entry.                                                      *)
C15_LogAppendOnlyExceptUpload ==
  [][/\ last'.op # "UploadClick" =>
          /\ Len(activityLog') >= Len(activityLog)
          /\ SubSeq(activityLog', 1, Len(activityLog)) = activityLog
     /\ \A type \in {"info", "error"} :
          /\ Len(addActivityLog(activityLog, <<"m">>, type)) = Len(activityLog) + 1
          /\ SubSeq(addActivityLog(activityLog, <<"m">>, type), 1, Len(activityLog))
               = activityLog]_vars

C15_Witness ==
  /\ last.op = "PostResponse"
  /\ Len(activityLog) >= 6
  /\ activityLog[1] = LogEntry(<<"Uploading and processing...">>, "info")

(* C17: for a category outside {info, success, error, warning,             *)
(* validation} the recorded entry uses both the info icon and the info     *)
(* color: it is the entry the same message gets with category "info".      *)
C17_UnknownCategoryRecordsAsInfo ==
  [][(last'.op = "addActivityLog" /\ last'.data[2] \notin KnownCategories) =>
       activityLog' = Append(activityLog, LogEntry(last'.data[1], "info"))]_vars

(* Reversal of the five substitutions, that of the ampersand last. *)
Unescape(html) ==
  replace(replace(replace(replace(replace(html,
    EntityApos, <<"'">>), EntityQuot, <<Quote>>), EntityGt, <<">">>),
    EntityLt, <<"<">>), EntityAmp, <<"&">>)

SpecialChars == {"&", "<", ">", Quote, "'"}

(* C16: for every input text, reversing the five substitutions on          *)
(* escapeHtml's output (that of the ampersand last) gives back the input,  *)
(* and a text with none of & < > " ' is returned as it is.                 *)
C16_EscapeRoundTrip ==
  last.op = "escapeHtml" =>
    \A i \in 1..Len(uploadedRows) :
      /\ Unescape(previewTable.rows[i]) = uploadedRows[i]
      /\ (\A k \in 1..Len(uploadedRows[i]) : uploadedRows[i][k] \notin SpecialChars) =>
           previewTable.rows[i] = uploadedRows[i]

C16_Witness ==
  /\ last.op = "escapeHtml"
  /\ uploadedRows = <<EntityLt>>
  /\ previewTable.rows = <<EntityAmp \o <<"l", "t", ";">>>>

(* C18: last writer wins on overlapping uploads: each /upload response     *)
(* without error replaces the Rows by its own rows, whatever an earlier    *)
(* response had set (also the response whose preview cannot be rendered:   *)
(* its rows are stored before the throw), a response carrying error (or a  *)
(* request that failed) leaves the Rows an earlier response set, and       *)
(* nothing else writes the Rows; so after both responses of two            *)
(* overlapping uploads the Rows are those of the successful response       *)
(* processed last.                                                         *)
C18_LastUploadResponseWins ==
  [][/\ (last'.op = "UploadResponse" /\ ~Truthy(last'.data.error)) =>
          uploadedRows' = RowsOf(last'.data)
     /\ (UploadFailure(last') /\ ~PreviewThrows(last')) =>
          uploadedRows' = uploadedRows
     /\ PreviewThrows(last') =>
          /\ uploadedRows' = RowsOf(last'.data)
          /\ previewTable' = previewTable
     /\ uploadedRows' # uploadedRows => last'.op = "UploadResponse"]_vars

(* Two uploads overlapped (the second activation cleared the log before    *)
(* either response came); the first response set one row, the second two.  *)
C18_Witness ==
  /\ last.op = "UploadResponse"
  /\ pending = EmptyBag
  /\ Len(activityLog) = 3
  /\ Mentions(activityLog[2].message, "File uploaded successfully. Showing first ")
  /\ Mentions(activityLog[2].message, "1")
  /\ Mentions(activityLog[3].message, "2")
  /\ uploadedRows = <<"r1", "r1">>

(* Two uploads overlapped; the response processed last carried error. *)
C18_WitnessErrorLast ==
  /\ last.op = "UploadResponse"
  /\ Truthy(last.data.error)
  /\ pending = EmptyBag
  /\ Len(activityLog) = 3
  /\ Mentions(activityLog[2].message, "File uploaded successfully. Showing first ")
  /\ uploadedRows = <<"r1">>

(* C19: whenever the Post action is enabled and a generated payload        *)
(* exists, the payload was generated from the Rows currently held: no      *)
(* Upload activation has occurred since the generation request that        *)
(* produced it was issued.  The payload is written, and Post enabled, by a *)
(* /generate_json response without error only; so the response's request   *)
(* must have been issued in the current upload cycle, and no step that     *)
(* leaves Post enabled may be an Upload activation.                        *)
C19_PostablePayloadIsCurrent ==
  [][(~postBtnDisabled' /\ Truthy(generatedInvoices')) =>
       /\ uploadCycle' = uploadCycle
       /\ (last'.op = "GenerateResponse" /\ ~Truthy(last'.data.error)) =>
            last'.request.uploadCycle = uploadCycle]_vars

(* C20: whenever a validation report has been rendered as the result of a  *)
(* report fetch (the fetch triggered by a validation-blocked generation    *)
(* failure included), the validation panel is visible.                     *)
C20_RenderedReportIsVisible == ReportRendered(last) => validationPanel

(* The labels of the successfully posted invoices of a /post_invoice       *)
(* response, in the response's order.                                      *)
PostedLabels(data) ==
  IF Truthy(data.error) THEN <<>>
  ELSE IF data.results.shape = "array"
    THEN LET ok == SelectSeq(data.results.items, LAMBDA x : x.value.success)
         IN [i \in 1..Len(ok) |->
               IF Truthy(ok[i].value.invoice_no) THEN ok[i].value.invoice_no
               ELSE "Unknown"]
  ELSE IF data.results.shape = "object"
    THEN LET ok == SelectSeq(ObjectKeys(data.results.items), LAMBDA x : x.value.success)
         IN [i \in 1..Len(ok) |-> ok[i].key]
  ELSE <<>>

PostPending == \E r \in BagToSet(pending) : r.url = <<"/post_invoice">>

(* C21: when a /post_invoice response has been processed, the Last-Created *)
(* panel is visible and no Post request is pending, the panel's list is    *)
(* the labels of that response's successfully posted invoices, in its      *)
(* order; a Post whose entries all fail, or whose response carries error,  *)
(* does not leave an earlier Post's identifiers displayed.                 *)
C21_LastCreatedShowsLatestPost ==
  (last.op = "PostResponse" /\ lastCreatedBox /\ ~PostPending) =>
    lastInvoiceList = PostedLabels(last.data)

UploadPending == BagIn(UploadRequest, pending)

GeneratePending == \E r \in BagToSet(pending) : r.url = <<"/generate_json">>

(* C22, as claimed: while an Upload request has had no response, Generate, *)
(* Post and Download stay disabled, and while a Generate request has had   *)
(* no response, Post and Download stay disabled, whatever the operator and *)
(* the other responses do; a request that never gets its response thus     *)
(* leaves them disabled for the rest of the session.                       *)
C22_HungRequestKeepsDisabled ==
  /\ UploadPending =>
       generateBtnDisabled /\ postBtnDisabled /\ downloadJsonBtnDisabled
  /\ GeneratePending => postBtnDisabled /\ downloadJsonBtnDisabled

(* C22, amended: nothing but the success response of a request re-enables  *)
(* an action: Generate is enabled only by an /upload response without      *)
(* error that carries rows, Post and Download only by a /generate_json     *)
(* response without error; no other action, response, failure or timer     *)
(* enables them.  The response may be that of another request, in flight   *)
(* already or issued by a later activation, which the page allows while    *)
(* the first request is still unanswered.                                  *)
C22_OnlySuccessResponsesEnable ==
  [][/\ (generateBtnDisabled /\ ~generateBtnDisabled') =>
          /\ last'.op = "UploadResponse"
          /\ ~Truthy(last'.data.error)
          /\ Len(RowsOf(last'.data)) > 0
     /\ ((postBtnDisabled /\ ~postBtnDisabled')
           \/ (downloadJsonBtnDisabled /\ ~downloadJsonBtnDisabled')) =>
          /\ last'.op = "GenerateResponse"
          /\ ~Truthy(last'.data.error)]_vars

(* One of two overlapping Upload requests is unanswered; the response of   *)
(* the other has enabled Generate.                                         *)
C22_Witness ==
  /\ UploadPending
  /\ last.op = "UploadResponse"
  /\ ~generateBtnDisabled
  /\ postBtnDisabled

(* How many requests a request can still lead to, itself included: the     *)
(* report fetch, /upload and /post_invoice lead to none, /start_validation *)
(* and /generate_json to a report fetch, /apply_corrections to a           *)
(* /start_validation.                                                      *)
ChainLength(request) ==
  IF request.url = <<"/apply_corrections">> THEN 3
  ELSE IF request.url \in {<<"/start_validation">>, <<"/generate_json">>} THEN 2
  ELSE 1

Responses ==
  {"UploadResponse", "UploadFailed", "StartValidationResponse", "StartValidationFailed",
   "ReportResponse", "ReportFailed", "ApplyResponse", "ApplyFailed",
   "GenerateResponse", "GenerateFailed", "PostResponse", "PostFailed"}

Quiescent == pending = EmptyBag /\ timers = EmptyBag

(* C23, the steps: a response handler settles its request and issues at    *)
(* most one request, never to the endpoint whose response it handles and   *)
(* always one with a shorter chain left; only a /start_validation response *)
(* arms a timer, and one at most; a timer issues at most a report fetch;   *)
(* an activation issues at most one request and arms no timer.  So an      *)
(* activation leads to at most three requests.                             *)
C23_NoHandlerReissues ==
  [][LET settled == IF last'.op \in Responses THEN Settle(pending, last'.request)
                    ELSE pending
         issued == pending' (-) settled
         fired == IF last'.op = "TimerFires" THEN Settle(timers, Timer(last'.data[1]))
                  ELSE timers
         armed == timers' (-) fired
     IN /\ BagCardinality(issued) <= 1
        /\ BagCardinality(armed) <= 1
        /\ last'.op \in Responses =>
             /\ BagCardinality(pending') <= BagCardinality(pending)
             /\ \A r \in BagToSet(issued) :
                  /\ r.url # last'.request.url
                  /\ ChainLength(r) < ChainLength(last'.request)
             /\ armed # EmptyBag => last'.request.url = <<"/start_validation">>
        /\ last'.op = "TimerFires" =>
             /\ armed = EmptyBag
             /\ \A r \in BagToSet(issued) : IsReportRequest(r)
        /\ last'.op \notin Responses \cup {"TimerFires"} =>
             /\ armed = EmptyBag
             /\ \A r \in BagToSet(issued) : ChainLength(r) <= 3]_vars

(* C23: no response handler re-issues a request to the endpoint whose      *)
(* response it handles, every activation leads to a chain of at most three *)
(* requests, and once the activations stop and every pending response and  *)
(* timer is delivered the page stays without pending request and timer.    *)
C23_NoRetryAndQuiescence == C23_NoHandlerReissues /\ <>[]Quiescent

(* The longest chain has run: corrections applied, validation started      *)
(* again, its report fetched and rendered, nothing left pending.           *)
C23_Witness ==
  /\ last.op = "ReportResponse"
  /\ Quiescent
  /\ \E i \in 1..Len(activityLog) :
       Mentions(activityLog[i].message, " corrections successfully!")

====
